---- MODULE Spec2Model ----
(***************************************************************************)
(* Model of the scraping pipeline of the graduate-student directory:       *)
(*   - PageSpec : one page going through an adapter's scrape (the          *)
(*                paged-JSON adapter and the two-phase health adapter)     *)
(*                and through the collection loop of scrape_college;       *)
(*   - Spec     : scrape_college, the three-stage paged engine;            *)
(*   - RunSpec  : run, the orchestrator joining the site tasks, storing    *)
(*                the students and running the salary phase.               *)
(* Every specification gives a value to every variable; the variables of   *)
(* the layers a specification does not model keep their idle value.        *)
(***************************************************************************)
EXTENDS Integers, Sequences, FiniteSets, TLC

\* ------------------------------------------------------------------------
\* Bounds of the model
\* ------------------------------------------------------------------------
\* rows (Data records, directory rows) of one page
MaxRows == 2
\* the ghost counter of detail-page requests saturates here
AttemptsCap == 3

\* ------------------------------------------------------------------------
\* Strings: sequences of symbols.  "mailto:" is one symbol, upper-case
\* letters are "A" and "T", everything else is lower case or punctuation.
\* ------------------------------------------------------------------------
LowerChar(c) == IF c = "A" THEN "a" ELSE IF c = "T" THEN "t" ELSE c

ToLowercase(s) == [i \in DOMAIN s |-> LowerChar(s[i])]

Contains(s, c) == \E i \in DOMAIN s : s[i] = c

RECURSIVE TrimStart(_)
TrimStart(s) == IF s # <<>> /\ Head(s) = " " THEN TrimStart(Tail(s)) ELSE s

RECURSIVE TrimEnd(_)
TrimEnd(s) ==
  IF s # <<>> /\ s[Len(s)] = " " THEN TrimEnd(SubSeq(s, 1, Len(s) - 1)) ELSE s

Trim(s) == TrimEnd(TrimStart(s))

\* s.replace(c, "")
RECURSIVE Remove(_, _)
Remove(s, c) ==
  IF s = <<>> THEN <<>>
  ELSE IF Head(s) = c THEN Remove(Tail(s), c)
  ELSE <<Head(s)>> \o Remove(Tail(s), c)

\* s.split(c).next(): the part of s before the first c (all of s without c)
RECURSIVE SplitFirst(_, _)
SplitFirst(s, c) ==
  IF s = <<>> \/ Head(s) = c THEN <<>>
  ELSE <<Head(s)>> \o SplitFirst(Tail(s), c)

\* Option<String>
None == [some |-> FALSE, v |-> <<>>]
Some(s) == [some |-> TRUE, v |-> s]

VARIABLES
  kind,          \* the adapter of the page: "json", "health" ("none": idle)
  response,      \* the typed response handed to scrape
  students,      \* scrape's result vector under construction
  req,           \* student_page_requests: per row, the state of its task
  ser,           \* student_page_serializations: per row, the state of its task
  attempts,      \* ghost: detail-page requests sent per row (saturating)
  replies,       \* ghost: the first two answers of the detail page per row
  read,          \* ghost: what reading the detail page of a row gave
  hpc,           \* position of the scrape / collection of the page
  hresult,       \* what scrape returned
  paged_results, \* scrape_college's page-list
  cresult,       \* what scrape_college returned
  version,       \* "app": app/src/scraper.rs, "legacy": src/scrapper.rs
  cpc,           \* position of scrape_college
  exchange,      \* ghost: what the server did with the initial request
  meta,          \* the paging data of the initial response
  total_pages,   \* total_pages of the initial response
  current_page,  \* the loop variable of the fetch fan-out
  wire,          \* ghost: the page numbers of the requests sent, in order
  chain,         \* per scheduled page, its task and the task's result
  rpc,           \* position of run
  sites,         \* scrape_tasks: per site, its task and the task's result
  finished,      \* the site tasks that completed and are not joined, in order
  Students,      \* the Students table, by Id
  Salaries,      \* the rows of the Salaries table
  salaries,      \* the Vec<Salary> process_salaries returned to run
  lookup,        \* get_student_by_name called on its own: the names asked, the
                 \* order the table is scanned in, the students returned
  snapshot,      \* ghost: the tables as the first run (application) left them
  log,           \* ghost: the rows written to Students, in order
  selectors,     \* scrape_html: the ScrapperSelectors given
  dom,           \* scrape_html: the parsed document given
  directory_rows, \* scrape_html: the Vec<DirectoryRow> returned
  epc,           \* position of the call of scrape_html
  args,          \* migrate: the direction and the optional target version
  scripts,       \* migrate: the files of the migrations directory
  database,      \* migrate: the committed database, the Migration table and
                 \* (ghost) the scripts executed on it, in order
  transaction,   \* migrate: the writes of the open transaction
  mpc            \* position of migrate's main

pvars == <<kind, response, students, req, ser, attempts, replies, read, hpc, hresult,
           paged_results, cresult>>

cvars == <<kind, version, cpc, exchange, meta, total_pages, current_page, wire, chain,
           paged_results, cresult>>

vars == <<kind, response, students, req, ser, attempts, replies, read, hpc, hresult,
          paged_results, cresult, version, cpc, exchange, meta, total_pages, current_page,
          wire, chain, rpc, sites, finished, Students, Salaries, salaries,
          lookup, snapshot, log,
          selectors, dom, directory_rows, epc,
          args, scripts, database, transaction, mpc>>

\* the variables of scrape_html and of migrate
hidle == <<selectors, dom, directory_rows, epc>>

midle == <<args, scripts, database, transaction, mpc>>

\* no transaction was opened
NoTransaction ==
  [open |-> FALSE, current_version |-> 0, target_version |-> 0,
   migrations |-> <<>>, executed |-> <<>>]

\* neither scrape_html on its own nor migrate is running
ToolsIdle ==
  /\ selectors = "none" /\ dom = "none" /\ directory_rows = <<>> /\ epc = "idle"
  /\ args = "none" /\ scripts = {} /\ database = "none" /\ transaction = NoTransaction
  /\ mpc = "idle"

NoMeta == [some |-> FALSE, a |-> 0, b |-> 1]

NoExchange == [sent |-> FALSE, status |-> 0, body |-> "none"]

cidle == <<version, cpc, exchange, meta, total_pages, current_page, wire, chain>>

pidle == <<response, students, req, ser, attempts, replies, read, hpc, hresult>>

NoSnapshot == [taken |-> FALSE, Students |-> <<>>, Salaries |-> {}]

\* no call of get_student_by_name on its own
NoLookup ==
  [names |-> <<>>, order |-> <<>>, asked |-> <<>>, long |-> <<>>, short |-> <<>>, row |-> "none"]

ridle == <<rpc, sites, finished, Students, Salaries, salaries, lookup, snapshot, log>>

\* what run leaves alone of the other layers
sidle == <<kind, paged_results, cresult>>

\* the variables of run that the models of a page and of scrape_college
\* leave idle
RunIdle ==
  /\ rpc = "idle" /\ sites = <<>> /\ finished = <<>>
  /\ Students = <<>> /\ Salaries = {} /\ salaries = <<>>
  /\ snapshot = NoSnapshot /\ log = <<>> /\ lookup = NoLookup

\* the variables of scrape_college that the model of one page leaves idle
CollegeIdle ==
  /\ version = "app" /\ cpc = "idle" /\ exchange = NoExchange /\ meta = NoMeta
  /\ total_pages = 0 /\ current_page = 0
  /\ wire = <<>> /\ chain = <<>>

\* the variables of one page's scrape that the model of scrape_college
\* leaves idle
PageIdle ==
  /\ response = [items |-> <<>>] /\ students = <<>> /\ req = <<>> /\ ser = <<>>
  /\ attempts = <<>> /\ replies = <<>> /\ read = <<>>
  /\ hpc = "idle" /\ hresult = "none"

\* ------------------------------------------------------------------------
\* Fixtures of a page
\* ------------------------------------------------------------------------
\* sequences over S of length 0..n
SeqsUpTo(S, n) == UNION {[1..k -> S] : k \in 0..n}

\* A Data record of the paged-JSON response: stralias, Email and
\* DepartmentList ("none": absent or empty, "null": first entry without a
\* department, "some": first entry with a department).
JsonRecords ==
  [id : {None, Some(<<>>), Some(<<"a">>)},
   email : {None, Some(<<"T", "@", "p">>)},
   dept : {"none", "null", "some"}]

\* A .faculty-table--row of the two-phase list page: whether the name link,
\* its href, its text and the department cell are there.  The text and the
\* href belong to the link.
RowShapes ==
  {r \in [link : BOOLEAN, href : BOOLEAN, text : BOOLEAN, dept : BOOLEAN] :
     ~r.link => (~r.href /\ ~r.text)}

\* The href of the detail page's ".email a" element.
Hrefs == {None, Some(<<"#">>), Some(<<"t">>), Some(<<"@", "p">>),
          Some(<<"mailto:", "T", "@", "p">>)}

\* What reading a detail page gives: a failed body read, a page without the
\* email element, or a page with it.
Bodies ==
  {[kind |-> "texterr", href |-> None], [kind |-> "noelem", href |-> None]}
  \cup {[kind |-> "elem", href |-> h] : h \in Hrefs}

NoBody == [kind |-> "none", href |-> None]

\* What a detail-page request gives: 200, another status, a transport error.
Replies == {"r200", "r500", "rerr"}

JsonResponses ==
  {[data |-> FALSE, items |-> <<>>]}
  \cup {[data |-> TRUE, items |-> d] : d \in SeqsUpTo(JsonRecords, MaxRows)}

HealthResponses ==
  {[html |-> "none", items |-> <<>>], [html |-> "invalid", items |-> <<>>]}
  \cup {[html |-> "ok", items |-> d] : d \in SeqsUpTo(RowShapes, MaxRows)}

\* ------------------------------------------------------------------------
\* Entries of a page's result vector: Result<GraduateStudent, Status>.
\* row is a ghost: the row the entry was made for.
\* ------------------------------------------------------------------------
Success(row, id, email) == [tag |-> "Ok", row |-> row, id |-> id, email |-> email]
Failure(row, status) == [tag |-> status, row |-> row, id |-> <<>>, email |-> <<>>]

Rows == DOMAIN response.items

\* ------------------------------------------------------------------------
\* Row parser (HtmlRowParser defaults, used by the two-phase adapter)
\* ------------------------------------------------------------------------
\* parse_email: no address without an href, or with an href that neither
\* holds '@' nor is "#"; else the href without "mailto:", trimmed, lowercased.
parse_email(href) ==
  IF ~href.some THEN None
  ELSE IF ~Contains(href.v, "@") /\ href.v # <<"#">> THEN None
  ELSE Some(ToLowercase(Trim(Remove(href.v, "mailto:"))))

\* the id of an email: email.trim().split("@").next(), lowercased
EmailId(email) == ToLowercase(SplitFirst(Trim(email), "@"))

\* ------------------------------------------------------------------------
\* Paged-JSON adapter: AgricultureScraper::scrape
\* ------------------------------------------------------------------------
\* variant: the id is the local part of Email whenever there is an Email
AgricultureRowEmailFirst(i, student) ==
  IF ~student.id.some /\ ~student.email.some THEN Failure(i, "NotFound")
  ELSE Success(i,
               IF student.email.some THEN ToLowercase(SplitFirst(student.email.v, "@"))
               ELSE student.id.v,
               IF student.email.some THEN student.email.v ELSE <<>>)

\* one Data record: Failure(NotFound) without stralias and Email, else a
\* Success whose id is the stralias or the lowercased local part of Email
AgricultureRow(i, student) ==
  IF ~student.id.some /\ ~student.email.some THEN Failure(i, "NotFound")
  ELSE Success(i,
               IF student.id.some THEN student.id.v
               ELSE ToLowercase(SplitFirst(student.email.v, "@")),
               IF student.email.some THEN student.email.v ELSE <<>>)

\* first_department.department.clone().unwrap() panics on a null department
AgricultureRowPanics(student) ==
  (student.id.some \/ student.email.some) /\ student.dept = "null"

AgricultureScrape(resp) ==
  IF ~resp.data THEN [out |-> "NotFound", page |-> <<>>]
  ELSE IF \E i \in DOMAIN resp.items : AgricultureRowPanics(resp.items[i])
  THEN [out |-> "Panic", page |-> <<>>]
  ELSE [out |-> "Ok",
        page |-> [i \in DOMAIN resp.items |-> AgricultureRow(i, resp.items[i])]]

\* ------------------------------------------------------------------------
\* Two-phase adapter: HealthScrapper::scrape
\* ------------------------------------------------------------------------
\* variant: the department cell is not looked at
ListRowValidAnyDepartment(row) == row.link /\ row.href /\ row.text

\* the list row yields a follow-up request (the checks of the map closure)
ListRowValid(row) == row.link /\ row.href /\ row.dept /\ row.text

\* the Failure entries of the list rows that yield none, in row order
RECURSIVE ListFailures(_, _)
ListFailures(items, i) ==
  IF i > Len(items) THEN <<>>
  ELSE (IF ListRowValid(items[i]) THEN <<>> ELSE <<Failure(i, "NotFound")>>)
       \o ListFailures(items, i + 1)

\* the entry made from a detail page that was read
DetailEntry(i, body) ==
  IF body.kind = "noelem" THEN Failure(i, "NotFound")
  ELSE LET email == parse_email(body.href) IN
       IF ~email.some THEN Failure(i, "InvalidArgument")
       ELSE Success(i, EmailId(email.v), email.v)

Bump(n) == IF n < AttemptsCap THEN n + 1 ELSE n

Idle == [st |-> "idle", reply |-> "none", body |-> NoBody]
Running == [st |-> "running", reply |-> "none", body |-> NoBody]

\* a scrape task of the page is spawned (scrape_college) and scrape starts:
\* the list rows are extracted and a detail request is spawned per valid row
HealthScrapeStart ==
  /\ kind = "health" /\ hpc = "start"
  /\ IF response.html = "none"
     THEN /\ hresult' = "NotFound" /\ hpc' = "scraped"
          /\ UNCHANGED <<students, req, attempts>>
     ELSE IF response.html = "invalid"
     THEN /\ hresult' = "InvalidArgument" /\ hpc' = "scraped"
          /\ UNCHANGED <<students, req, attempts>>
     ELSE /\ students' = ListFailures(response.items, 1)
          /\ req' = [i \in Rows |->
                       IF ListRowValid(response.items[i]) THEN Running ELSE Idle]
          /\ attempts' = [i \in Rows |->
                            IF ListRowValid(response.items[i]) THEN 1 ELSE 0]
          /\ hpc' = "join_requests"
          /\ UNCHANGED hresult
  /\ UNCHANGED <<kind, response, ser, replies, read, paged_results, cresult>>

\* the detail-page server answers a request
DetailRequestCompletes(i, reply) ==
  /\ hpc \in {"join_requests", "join_serializations"}
  /\ req[i].st = "running"
  /\ req' = [req EXCEPT ![i] = [st |-> "done", reply |-> reply, body |-> NoBody]]
  /\ replies' = [replies EXCEPT ![i] =
                   IF Len(@) < 2 THEN Append(@, reply) ELSE @]
  /\ UNCHANGED <<kind, response, students, ser, attempts, read, hpc, hresult,
                 paged_results, cresult>>

\* the body of a detail page is read
DetailBodyCompletes(i, body) ==
  /\ hpc \in {"join_requests", "join_serializations"}
  /\ ser[i].st = "running"
  /\ ser' = [ser EXCEPT ![i] = [st |-> "done", reply |-> "none", body |-> body]]
  /\ read' = [read EXCEPT ![i] = body]
  /\ UNCHANGED <<kind, response, students, req, attempts, replies, hpc, hresult,
                 paged_results, cresult>>

\* what the first loop does with a joined request task
JoinedRequest(i) ==
  IF req[i].reply = "rerr"
  THEN \* the pattern does not match: the loop ends, the student is dropped
       /\ req' = [req EXCEPT ![i] = Idle]
       /\ hpc' = "join_serializations"
       /\ UNCHANGED <<ser, attempts>>
  ELSE IF req[i].reply = "r500"
  THEN \* any status but 200: the request is spawned again
       /\ req' = [req EXCEPT ![i] = Running]
       /\ attempts' = [attempts EXCEPT ![i] = Bump(@)]
       /\ UNCHANGED <<ser, hpc>>
  ELSE /\ req' = [req EXCEPT ![i] = Idle]
       /\ ser' = [ser EXCEPT ![i] = Running]
       /\ UNCHANGED <<attempts, hpc>>

\* while let Some(Ok((student, Ok(response)))) = student_page_requests.join_next()
HealthJoinRequest ==
  /\ kind = "health" /\ hpc = "join_requests"
  /\ \E i \in Rows : req[i].st = "done" /\ JoinedRequest(i)
  /\ UNCHANGED <<kind, response, students, replies, read, hresult, paged_results, cresult>>

\* join_next gives None: no request task is left
HealthRequestsDrained ==
  /\ kind = "health" /\ hpc = "join_requests"
  /\ \A i \in Rows : req[i].st = "idle"
  /\ hpc' = "join_serializations"
  /\ UNCHANGED <<kind, response, students, req, ser, attempts, replies, read,
                 hresult, paged_results, cresult>>

\* what the second loop does with a joined serialization task
JoinedSerialization(i) ==
  IF ser[i].body.kind = "texterr"
  THEN \* the pattern does not match: the loop ends and scrape returns
       /\ hpc' = "scraped" /\ hresult' = "Ok"
       /\ UNCHANGED students
  ELSE /\ students' = Append(students, DetailEntry(i, ser[i].body))
       /\ UNCHANGED <<hpc, hresult>>

\* while let Some(Ok((mut student, Ok(student_page)))) = ...serializations.join_next()
HealthJoinSerialization ==
  /\ kind = "health" /\ hpc = "join_serializations"
  /\ \E i \in Rows :
       /\ ser[i].st = "done"
       /\ JoinedSerialization(i)
       /\ ser' = [ser EXCEPT ![i] = Idle]
  /\ UNCHANGED <<kind, response, req, attempts, replies, read, paged_results, cresult>>

\* join_next gives None: scrape returns Ok(students)
HealthSerializationsDrained ==
  /\ kind = "health" /\ hpc = "join_serializations"
  /\ \A i \in Rows : ser[i].st = "idle"
  /\ hpc' = "scraped" /\ hresult' = "Ok"
  /\ UNCHANGED <<kind, response, students, req, ser, attempts, replies, read,
                 paged_results, cresult>>

\* the paged-JSON scrape task runs to its end
AgricultureScrapeTask ==
  /\ kind = "json" /\ hpc = "start"
  /\ LET r == AgricultureScrape(response) IN
       /\ hresult' = r.out
       /\ students' = r.page
  /\ hpc' = "scraped"
  /\ UNCHANGED <<kind, response, req, ser, attempts, replies, read, paged_results, cresult>>

\* ------------------------------------------------------------------------
\* scrape_college: the collection of the scrape tasks' results
\* ------------------------------------------------------------------------
\* variant: a failed page is skipped and the loop goes on
CollectPageSkipsErrors(list, out, page) ==
  IF out # "Ok" \/ page = <<>> THEN [ret |-> "continue", list |-> list]
  ELSE [ret |-> "continue", list |-> Append(list, page)]

\* variant: an empty page is pushed like any other
CollectPageKeepsEmpty(list, out, page) ==
  IF out = "Panic" THEN [ret |-> "Internal", list |-> list]
  ELSE IF out # "Ok" THEN [ret |-> out, list |-> list]
  ELSE [ret |-> "continue", list |-> Append(list, page)]

\* one turn of "while let Some(result) = active_scrapes.join_next()": a
\* panicked task is Internal, an error of the task is returned, an empty
\* page is skipped, any other page is pushed
CollectPage(list, out, page) ==
  IF out = "Panic" THEN [ret |-> "Internal", list |-> list]
  ELSE IF out # "Ok" THEN [ret |-> out, list |-> list]
  ELSE IF page = <<>> THEN [ret |-> "continue", list |-> list]
  ELSE [ret |-> "continue", list |-> Append(list, page)]

\* scrape_college joins the scrape task of the page and, no task being
\* left, returns
CollegeCollectsPage ==
  /\ hpc = "scraped"
  /\ LET c == CollectPage(paged_results, hresult, students) IN
       /\ paged_results' = c.list
       /\ cresult' = IF c.ret = "continue" THEN "Ok" ELSE c.ret
  /\ hpc' = "returned"
  /\ UNCHANGED <<kind, response, students, req, ser, attempts, replies, read, hresult>>

PageInit ==
  /\ kind \in {"json", "health"}
  /\ response \in IF kind = "json" THEN JsonResponses ELSE HealthResponses
  /\ students = <<>>
  /\ req = [i \in Rows |-> Idle]
  /\ ser = [i \in Rows |-> Idle]
  /\ attempts = [i \in Rows |-> 0]
  /\ replies = [i \in Rows |-> <<>>]
  /\ read = [i \in Rows |-> NoBody]
  /\ hpc = "start"
  /\ hresult = "none"
  /\ paged_results = <<>>
  /\ cresult = "none"
  /\ CollegeIdle
  /\ RunIdle
  /\ ToolsIdle

PageNext ==
  \/ AgricultureScrapeTask /\ UNCHANGED <<cidle, ridle, hidle, midle>>
  \/ HealthScrapeStart /\ UNCHANGED <<cidle, ridle, hidle, midle>>
  \/ \E i \in Rows, reply \in Replies :
       DetailRequestCompletes(i, reply) /\ UNCHANGED <<cidle, ridle, hidle, midle>>
  \/ \E i \in Rows, body \in Bodies :
       DetailBodyCompletes(i, body) /\ UNCHANGED <<cidle, ridle, hidle, midle>>
  \/ HealthJoinRequest /\ UNCHANGED <<cidle, ridle, hidle, midle>>
  \/ HealthRequestsDrained /\ UNCHANGED <<cidle, ridle, hidle, midle>>
  \/ HealthJoinSerialization /\ UNCHANGED <<cidle, ridle, hidle, midle>>
  \/ HealthSerializationsDrained /\ UNCHANGED <<cidle, ridle, hidle, midle>>
  \/ CollegeCollectsPage /\ UNCHANGED <<cidle, ridle, hidle, midle>>

PageSpec == PageInit /\ [][PageNext]_vars

\* the scheduler runs every task that can run
PageFairSpec == PageSpec /\ WF_vars(PageNext)

\* ------------------------------------------------------------------------
\* Properties of a page's scrape (PageSpec)
\* ------------------------------------------------------------------------
\* the entries of the page's result vector made for row i
EntriesOf(i) == {k \in DOMAIN students : students[k].row = i}

ScrapeReturned == hpc \in {"scraped", "returned"}

Failed(reply) == reply \in {"r500", "rerr"}

MailtoBody == [kind |-> "elem", href |-> Some(<<"mailto:", "T", "@", "p">>)]

\* C3: the scrape of a two-phase page always returns, whatever the
\* detail-page server answers.
ScrapeTerminates == <>ScrapeReturned

\* C4: a failed detail-page request is retried exactly once (no row is
\* requested more than twice), and a row whose request and retry both
\* failed is in the results as Failure(Internal).
RetriedExactlyOnce ==
  kind = "health" =>
    \A i \in Rows :
      /\ attempts[i] <= 2
      /\ (/\ ScrapeReturned
          /\ Len(replies[i]) = 2
          /\ Failed(replies[i][1]) /\ Failed(replies[i][2]))
         => \E k \in EntriesOf(i) : students[k].tag = "Internal"

\* C5: a row whose detail page answers 500 and then 200 with a mailto link
\* has exactly one entry in the page's results, a Success with the email of
\* the link and the lowercased local part as id.
RetryYieldsSuccess ==
  (kind = "health" /\ ScrapeReturned) =>
    \A i \in Rows :
      (replies[i] = <<"r500", "r200">> /\ read[i] = MailtoBody)
      => /\ Cardinality(EntriesOf(i)) = 1
         /\ \A k \in EntriesOf(i) :
              students[k] = Success(i, <<"t">>, <<"t", "@", "p">>)

\* the row-level errors: a Data record without stralias and Email, a list
\* row without name link, href, department or name text
RowLevelError(i) ==
  \/ kind = "json" /\ response.data
       /\ ~response.items[i].id.some /\ ~response.items[i].email.some
  \/ kind = "health" /\ response.html = "ok" /\ ~ListRowValid(response.items[i])

\* C6: a row-level error is a Failure entry of the page's results,
\* scrape_college does not return an error, and every other row of the page
\* is emitted too.
RowErrorStaysInPage ==
  hpc = "returned" =>
    \A i \in Rows :
      RowLevelError(i)
      => /\ cresult = "Ok"
         /\ \A k \in EntriesOf(i) : students[k].tag = "NotFound"
         /\ \A j \in Rows : Cardinality(EntriesOf(j)) = 1
         /\ paged_results = <<students>>

\* ------------------------------------------------------------------------
\* scrape_college: the paged three-stage engine (Spec)
\* ------------------------------------------------------------------------
\* TotalPages of the paged-JSON response
MaxPages == 3
\* totalposts and postcount of the two-phase response
MaxPosts == 3
MaxPostCount == 2

\* Request::default(): CurrentPageNumber 1 (paged JSON), page 0 (two-phase),
\* no page at all for the unit request
DefaultRequest(k) == [page |-> IF k = "json" THEN 1 ELSE 0]

\* PagedRequest::current_page
current_page_of(k, request) ==
  IF k = "json" THEN request.page - 1
  ELSE IF k = "health" THEN request.page
  ELSE 0

\* PagedRequest::set_page
set_page(k, request, page) ==
  IF k = "single" THEN request ELSE [request EXCEPT !.page = page]

\* variant: the loop starts at the page of the initial request
FirstPageNoStep(v, initial_page) == initial_page

\* the page the fan-out starts at: the app version steps over the initial
\* page, the legacy version does not
FirstPage(v, initial_page) == IF v = "app" THEN initial_page + 1 ELSE initial_page

\* the paging data of a response: TotalPages (a), or meta with totalposts (a)
\* and postcount (b)
Metas(k) ==
  IF k = "json"
  THEN {NoMeta} \cup {[some |-> TRUE, a |-> n, b |-> 1] : n \in 0..MaxPages}
  ELSE IF k = "health"
  THEN {NoMeta}
       \cup {[some |-> TRUE, a |-> n, b |-> m] : n \in 0..MaxPosts, m \in 0..MaxPostCount}
  ELSE {[some |-> TRUE, a |-> 1, b |-> 1]}

\* PagedResponse::total_pages: [out, n]
TotalPagesOf(k, m) ==
  IF k = "single" THEN [out |-> "Ok", n |-> 1]
  ELSE IF ~m.some THEN [out |-> "NotFound", n |-> 0]
  ELSE IF k = "json" THEN [out |-> "Ok", n |-> m.a]
  ELSE IF m.b = 0 THEN [out |-> "Panic", n |-> 0]
  ELSE [out |-> "Ok", n |-> m.a \div m.b]

\* what the server does with a request: no answer, or a status and a body
\* (a body that does not parse, one that parses and has no student list,
\* one with a student list)
Exchanges ==
  {NoExchange}
  \cup [sent : {TRUE}, status : {200, 500}, body : {"ok", "nolist", "invalid"}]

\* the error of fetch when the request could not be sent
FetchError(k) == IF k = "health" THEN "InvalidArgument" ELSE "NotFound"

\* StudentScraper::fetch then deserialize on one exchange
Deserialize(k, x) ==
  IF ~x.sent THEN FetchError(k)
  ELSE IF k # "single" /\ x.status # 200 THEN "Internal"
  ELSE IF x.body = "invalid" THEN "InvalidArgument"
  ELSE "ok"

\* the legacy version unwraps every result
Unwrapped(v, val) == IF v = "legacy" /\ val # "ok" THEN "Panic" ELSE val

\* what StudentScraper::scrape can return for a page
ScrapeOutcomes(k, v) ==
  {[val |-> "ok", content |-> c] : c \in {"rows", "empty"}}
  \cup {[val |-> e, content |-> "none"] :
          e \in IF k = "json" THEN {"NotFound", "Panic"}
                ELSE IF k = "health" THEN {"NotFound", "InvalidArgument"}
                ELSE IF v = "app" THEN {"InvalidArgument"}
                ELSE {}}

\* variant: scrape returns anything whatever the response holds
ScrapeAllowedAny(k, body, r) == TRUE

\* scrape on a response without Data (paged JSON) or without html
\* (two-phase) returns NotFound, and only then
ScrapeAllowed(k, body, r) ==
  k \in {"json", "health"} => (body = "nolist" <=> r.val = "NotFound")

Task(page, st) == [page |-> page, st |-> st, x |-> "none", val |-> "ok", content |-> "none"]

\* variant: the fetch of the next page only, the pages are fetched one after
\* the other
FetchTasksNextOnly(k, page, total) ==
  IF page < total THEN <<Task(set_page(k, DefaultRequest(k), page).page, "fetching")>>
  ELSE <<>>

\* the fetch tasks of "while current_page < total_pages"
RECURSIVE FetchTasks(_, _, _)
FetchTasks(k, page, total) ==
  IF page < total
  THEN <<Task(set_page(k, DefaultRequest(k), page).page, "fetching")>>
       \o FetchTasks(k, page + 1, total)
  ELSE <<>>

\* the initial request: fetch, deserialize and total_pages, awaited in turn
CollegeStart ==
  /\ cpc = "start"
  /\ \E x \in Exchanges, m \in Metas(kind) :
       LET request == DefaultRequest(kind)
           d == Unwrapped(version, Deserialize(kind, x))
           t == TotalPagesOf(kind, m)
       IN /\ wire' = <<request.page>>
          /\ exchange' = x
          /\ meta' = IF d = "ok" THEN m ELSE meta
          /\ IF d # "ok"
             THEN /\ cresult' = d /\ cpc' = "returned"
                  /\ UNCHANGED <<total_pages, current_page>>
             ELSE IF t.out # "Ok"
             THEN /\ cresult' = t.out /\ cpc' = "returned"
                  /\ UNCHANGED <<total_pages, current_page>>
             ELSE /\ total_pages' = t.n
                  /\ current_page' = FirstPage(version, current_page_of(kind, request))
                  /\ cpc' = "schedule"
                  /\ UNCHANGED cresult
  /\ UNCHANGED <<kind, version, chain, paged_results>>

\* the scrape of the initial response and the fetch of every further page
\* are spawned
CollegeSchedule ==
  /\ cpc = "schedule"
  /\ LET fetches == FetchTasks(kind, current_page, total_pages) IN
       /\ chain' = <<Task(wire[1], "scraping")>> \o fetches
       /\ wire' = wire \o [i \in DOMAIN fetches |-> fetches[i].page]
       /\ current_page' = IF current_page < total_pages THEN total_pages
                          ELSE current_page
  /\ cpc' = "join_requests"
  /\ UNCHANGED <<kind, version, exchange, meta, total_pages, paged_results, cresult>>

\* a spawned task runs until it ends or is aborted
Running_(c) == c \in DOMAIN chain /\ chain[c].st \in {"fetching", "deserializing", "scraping"}

\* variant: the tasks are detached from the JoinSets, none is aborted
DetachJoinSets(tasks) == tasks

\* active_requests, active_serializations and active_scrapes are dropped:
\* JoinSet's Drop aborts every task of the set that has not ended
DropJoinSets(tasks) ==
  [c \in DOMAIN tasks |->
     IF tasks[c].st \in {"fetching", "deserializing", "scraping"}
     THEN [tasks[c] EXCEPT !.st = "aborted"]
     ELSE tasks[c]]

\* a fetch task ends: the server has answered, or the request failed
FetchCompletes(c, x) ==
  /\ Running_(c) /\ chain[c].st = "fetching"
  /\ chain' = [chain EXCEPT ![c].st = "fetched", ![c].x = x]
  /\ UNCHANGED <<kind, version, cpc, exchange, meta, total_pages, current_page, wire,
                 paged_results, cresult>>

\* while let Some(http_response) = active_requests.join_next(): a deserialize
\* task is spawned for the joined fetch
CollegeJoinRequest ==
  /\ cpc = "join_requests"
  /\ \E c \in DOMAIN chain :
       /\ chain[c].st = "fetched"
       /\ chain' = [chain EXCEPT ![c].st = "deserializing"]
  /\ UNCHANGED <<kind, version, cpc, exchange, meta, total_pages, current_page, wire,
                 paged_results, cresult>>

CollegeRequestsDrained ==
  /\ cpc = "join_requests"
  /\ \A c \in DOMAIN chain : chain[c].st \notin {"fetching", "fetched"}
  /\ cpc' = "join_serializations"
  /\ UNCHANGED <<kind, version, exchange, meta, total_pages, current_page, wire, chain,
                 paged_results, cresult>>

\* a deserialize task ends: with the error of the fetch, or with what
\* deserialize makes of the response
DeserializeCompletes(c) ==
  /\ Running_(c) /\ chain[c].st = "deserializing"
  /\ chain' = [chain EXCEPT ![c].st = "deserialized",
                            ![c].val = Unwrapped(version, Deserialize(kind, chain[c].x))]
  /\ UNCHANGED <<kind, version, cpc, exchange, meta, total_pages, current_page, wire,
                 paged_results, cresult>>

\* while let Some(list_response) = active_serializations.join_next(): a
\* scrape task is spawned for the joined deserialize
CollegeJoinSerialization ==
  /\ cpc = "join_serializations"
  /\ \E c \in DOMAIN chain :
       /\ chain[c].st = "deserialized"
       /\ chain' = [chain EXCEPT ![c].st = "scraping"]
  /\ UNCHANGED <<kind, version, cpc, exchange, meta, total_pages, current_page, wire,
                 paged_results, cresult>>

CollegeSerializationsDrained ==
  /\ cpc = "join_serializations"
  /\ \A c \in DOMAIN chain : chain[c].st \notin {"deserializing", "deserialized"}
  /\ cpc' = "join_scrapes"
  /\ UNCHANGED <<kind, version, exchange, meta, total_pages, current_page, wire, chain,
                 paged_results, cresult>>

\* the body of the response a chain deserialized
BodyOf(c) == IF c = 1 THEN exchange.body ELSE chain[c].x.body

\* a scrape task ends: with the error of the earlier stages, or with what
\* scrape returns
ScrapeCompletes(c, r) ==
  /\ Running_(c) /\ chain[c].st = "scraping"
  /\ chain[c].val = "ok" => ScrapeAllowed(kind, BodyOf(c), r)
  /\ chain' = [chain EXCEPT ![c].st = "scraped",
                            ![c].val = IF chain[c].val # "ok" THEN chain[c].val
                                       ELSE r.val,
                            ![c].content = IF chain[c].val # "ok" THEN "none"
                                           ELSE r.content]
  /\ UNCHANGED <<kind, version, cpc, exchange, meta, total_pages, current_page, wire,
                 paged_results, cresult>>

\* the page of a chain as it is pushed on the page-list
PageOf(c) == IF chain[c].content = "rows" THEN <<c>> ELSE <<>>

\* the collection of the legacy version: unwrap, then push
CollectLegacy(list, out, page) ==
  IF out # "ok" THEN [ret |-> "Panic", list |-> list]
  ELSE [ret |-> "continue", list |-> Append(list, page)]

\* while let Some(result) = active_scrapes.join_next()
CollegeJoinScrape ==
  /\ cpc = "join_scrapes"
  /\ \E c \in DOMAIN chain :
       /\ chain[c].st = "scraped"
       /\ LET out == IF chain[c].val = "ok" THEN "Ok" ELSE chain[c].val
              r == IF version = "app"
                   THEN CollectPage(paged_results, out, PageOf(c))
                   ELSE CollectLegacy(paged_results, chain[c].val, PageOf(c))
          IN /\ paged_results' = r.list
             /\ IF r.ret = "continue"
                THEN /\ chain' = [chain EXCEPT ![c].st = "joined"]
                     /\ UNCHANGED <<cpc, cresult>>
                ELSE /\ chain' = DropJoinSets([chain EXCEPT ![c].st = "joined"])
                     /\ cresult' = r.ret /\ cpc' = "returned"
  /\ UNCHANGED <<kind, version, exchange, meta, total_pages, current_page, wire>>

\* join_next gives None: Ok(paged_results)
CollegeScrapesDrained ==
  /\ cpc = "join_scrapes"
  /\ \A c \in DOMAIN chain : chain[c].st = "joined"
  /\ cresult' = "Ok" /\ cpc' = "returned"
  /\ UNCHANGED <<kind, version, exchange, meta, total_pages, current_page, wire, chain,
                 paged_results>>

\* the future of scrape_college is dropped at one of its awaits (run returns
\* and drops scrape_tasks while the site is still at work): its JoinSets are
\* dropped with it
CollegeDropped ==
  /\ cpc \in {"start", "join_requests", "join_serializations", "join_scrapes"}
  /\ cpc' = "dropped"
  /\ chain' = DropJoinSets(chain)
  /\ UNCHANGED <<kind, version, exchange, meta, total_pages, current_page, wire,
                 paged_results, cresult>>

\* the adapters: paged JSON, two-phase and single page of the app version,
\* single page of the legacy version
Init ==
  /\ \/ kind \in {"json", "health", "single"} /\ version = "app"
     \/ kind = "single" /\ version = "legacy"
  /\ cpc = "start"
  /\ exchange = NoExchange
  /\ meta = NoMeta
  /\ total_pages = 0 /\ current_page = 0
  /\ wire = <<>> /\ chain = <<>>
  /\ paged_results = <<>>
  /\ cresult = "none"
  /\ PageIdle
  /\ RunIdle
  /\ ToolsIdle

Next ==
  \/ CollegeStart /\ UNCHANGED <<pidle, ridle, hidle, midle>>
  \/ CollegeSchedule /\ UNCHANGED <<pidle, ridle, hidle, midle>>
  \/ \E c \in DOMAIN chain, x \in Exchanges : FetchCompletes(c, x) /\ UNCHANGED <<pidle, ridle, hidle, midle>>
  \/ CollegeJoinRequest /\ UNCHANGED <<pidle, ridle, hidle, midle>>
  \/ CollegeRequestsDrained /\ UNCHANGED <<pidle, ridle, hidle, midle>>
  \/ \E c \in DOMAIN chain : DeserializeCompletes(c) /\ UNCHANGED <<pidle, ridle, hidle, midle>>
  \/ CollegeJoinSerialization /\ UNCHANGED <<pidle, ridle, hidle, midle>>
  \/ CollegeSerializationsDrained /\ UNCHANGED <<pidle, ridle, hidle, midle>>
  \/ \E c \in DOMAIN chain, r \in ScrapeOutcomes(kind, version) :
       ScrapeCompletes(c, r) /\ UNCHANGED <<pidle, ridle, hidle, midle>>
  \/ CollegeJoinScrape /\ UNCHANGED <<pidle, ridle, hidle, midle>>
  \/ CollegeScrapesDrained /\ UNCHANGED <<pidle, ridle, hidle, midle>>
  \/ CollegeDropped /\ UNCHANGED <<pidle, ridle, hidle, midle>>

Spec == Init /\ [][Next]_vars

\* the steps of scrape_college and of its deserialize and scrape tasks
EngineStep ==
  \/ CollegeStart \/ CollegeSchedule
  \/ CollegeJoinRequest \/ CollegeRequestsDrained
  \/ \E c \in DOMAIN chain : DeserializeCompletes(c)
  \/ CollegeJoinSerialization \/ CollegeSerializationsDrained
  \/ \E c \in DOMAIN chain, r \in ScrapeOutcomes(kind, version) : ScrapeCompletes(c, r)
  \/ CollegeJoinScrape \/ CollegeScrapesDrained

\* the runtime runs scrape_college and the tasks that compute; a fetch
\* takes as long as the server makes it take
EngineFairSpec == Spec /\ WF_vars(EngineStep /\ UNCHANGED <<pidle, ridle, hidle, midle>>)

\* ------------------------------------------------------------------------
\* run: the site tasks, the storage of the students, the salary phase
\* ------------------------------------------------------------------------
\* the sites run spawns a task for
MaxSites == 3

Sites == 1..MaxSites

\* students.chunks(50), salaries.chunks(50)
ChunkSize == 50

\* Office { building, room }; Office::default() has both empty
Office(building, room) == [building |-> building, room |-> room]

\* a row of a page: Ok(GraduateStudent) with its id, names and office, or
\* Err(status)
GraduateStudent(id, names, office) ==
  [tag |-> "Ok", id |-> id, names |-> names, office |-> office]

FailedRow == [tag |-> "NotFound", id |-> <<>>, names |-> <<>>, office |-> Office(<<>>, <<>>)]

\* the student a site lists: every third site lists the student of the
\* first under the same id, with a middle name
SiteStudent(s) ==
  IF s % 3 = 1 THEN GraduateStudent(<<"x">>, << <<"a">>, <<"b">> >>, Office(<<"B">>, <<"1">>))
  ELSE IF s % 3 = 2 THEN GraduateStudent(<<"y">>, << <<"a">>, <<"t">> >>, Office(<<"B">>, <<"2">>))
  ELSE GraduateStudent(<<"x">>, << <<"a">>, <<"m">>, <<"b">> >>, Office(<<>>, <<>>))

\* the College of the adapter of a site: the ids are "0", "1", "2", ...
CollegeOf(s) == [id |-> <<ToString(s - 1)>>]

\* what join_next gives for the task of a site: Ok(Ok(pages)), Ok(Err(_))
\* ("Err") or Err(JoinError) ("Panic")
SiteOutcomes(s) ==
  { [tag |-> "Ok", pages |-> <<>>],
    [tag |-> "Ok", pages |-> << <<SiteStudent(s)>> >>],
    [tag |-> "Ok", pages |-> << <<FailedRow, SiteStudent(s)>> >>],
    [tag |-> "Ok", pages |-> << <<FailedRow>> >>],
    [tag |-> "Err", pages |-> <<>>],
    [tag |-> "Panic", pages |-> <<>>] }

NoOutcome == [tag |-> "none", pages |-> <<>>]

\* parts.join(sep)
RECURSIVE Join(_, _)
Join(parts, sep) ==
  IF parts = <<>> THEN <<>>
  ELSE IF Len(parts) = 1 THEN parts[1]
  ELSE parts[1] \o sep \o Join(Tail(parts), sep)

\* s.split(c)
RECURSIVE Split(_, _)
Split(s, c) ==
  LET first == SplitFirst(s, c)
  IN IF Len(first) = Len(s) THEN <<first>>
     ELSE <<first>> \o Split(SubSeq(s, Len(first) + 2, Len(s)), c)

Reverse(q) == [i \in DOMAIN q |-> q[Len(q) + 1 - i]]

RECURSIVE Flatten(_)
Flatten(qs) == IF qs = <<>> THEN <<>> ELSE Head(qs) \o Flatten(Tail(qs))

\* rows.chunks(ChunkSize)
RECURSIVE Chunks(_)
Chunks(rows) ==
  IF rows = <<>> THEN <<>>
  ELSE IF Len(rows) <= ChunkSize THEN <<rows>>
  ELSE <<SubSeq(rows, 1, ChunkSize)>> \o Chunks(SubSeq(rows, ChunkSize + 1, Len(rows)))

\* the names in the shape "<last>, <first> <middle>..."
LastNameFirst(names) ==
  IF Len(names) <= 1 THEN Join(names, <<" ">>)
  ELSE names[Len(names)] \o <<", ">> \o Join(SubSeq(names, 1, Len(names) - 1), <<" ">>)

\* variant: the Name is written last name first
StudentRowLastNameFirst(r) ==
  [name |-> LastNameFirst(r.names), office |-> r.office, college_id |-> <<"1">>]

\* the columns of a Students row: Name is names.join(" "), Office is the
\* serialized office of the record
StudentRow(r) ==
  [name |-> Join(r.names, <<" ">>), office |-> r.office, college_id |-> <<"1">>]

\* variant: ON CONFLICT (Id) DO UPDATE SET Name = Name || excluded.Name, the
\* name of a row whose Id is stored is appended to
RECURSIVE InsertStudentsMerging(_, _)
InsertStudentsMerging(table, rows) ==
  IF rows = <<>> THEN table
  ELSE LET r == Head(rows)
       IN InsertStudentsMerging(
            IF r.id \in DOMAIN table
            THEN [table EXCEPT ![r.id].name = @ \o StudentRow(r).name]
            ELSE (r.id :> StudentRow(r)) @@ table,
            Tail(rows))

\* variant: INSERT OR IGNORE, a row whose Id is stored is left as it is
RECURSIVE InsertStudentsIgnore(_, _)
InsertStudentsIgnore(table, rows) ==
  IF rows = <<>> THEN table
  ELSE InsertStudentsIgnore(table @@ (Head(rows).id :> StudentRow(Head(rows))),
                            Tail(rows))

\* INSERT OR REPLACE INTO Students of the rows of one statement, in order
RECURSIVE InsertStudents(_, _)
InsertStudents(table, rows) ==
  IF rows = <<>> THEN table
  ELSE InsertStudents((Head(rows).id :> StudentRow(Head(rows))) @@ table,
                      Tail(rows))

\* one statement per chunk, of the Ok rows of the chunk; a chunk without an
\* Ok row gives a statement without SELECT, execute fails and unwrap panics
RECURSIVE StoreChunks(_, _)
StoreChunks(table, chunks) ==
  IF chunks = <<>> THEN [panic |-> FALSE, table |-> table]
  ELSE LET rows == SelectSeq(Head(chunks), LAMBDA r : r.tag = "Ok")
       IN IF rows = <<>> THEN [panic |-> TRUE, table |-> table]
          ELSE StoreChunks(InsertStudents(table, rows), Tail(chunks))

store_students(page, table) == StoreChunks(table, Chunks(page))

\* for page in scraped_students_by_page { store_students(&page, ..) }
RECURSIVE StorePages(_, _)
StorePages(table, pages) ==
  IF pages = <<>> THEN [panic |-> FALSE, table |-> table]
  ELSE LET r == store_students(Head(pages), table)
       IN IF r.panic THEN r ELSE StorePages(r.table, Tail(pages))

\* the compensation file: Year is a 16-symbol prefix ("P") and the digits
\* of the year, Name is "Last, First Middle", ", " is one symbol
SalaryFile ==
  << [year |-> <<"P", "2", "2">>, name |-> <<"b", ", ", "a", " ", "m">>,
      job_title |-> "Graduate Student",
      total_compensation |-> <<"$", "1", ",", "2", ".", "0">>],
     [year |-> <<"P", "2", "2">>, name |-> <<"t", ", ", "a">>,
      job_title |-> "Professor",
      total_compensation |-> <<"$", "9", ".", "0">>],
     [year |-> <<"P", "2", "3">>, name |-> <<"T", ", ", "A">>,
      job_title |-> "Graduate Student",
      total_compensation |-> <<"$", "3", ".", "0">>],
     [year |-> <<"P", "2", "2">>, name |-> <<"b", ", ", "a">>,
      job_title |-> "Graduate Student",
      total_compensation |-> <<"$", "5", ".", "0">>] >>

Digits == {"0", "1", "2", "3", "4", "5", "6", "7", "8", "9"}

IsNumber(q) == q # <<>> /\ \A i \in DOMAIN q : q[i] \in Digits

DigitOf(c) == CHOOSE d \in 0..9 : ToString(d) = c

\* str::parse::<usize>() of a string of digits
RECURSIVE ParseNumber(_)
ParseNumber(q) ==
  IF q = <<>> THEN 0
  ELSE ParseNumber(SubSeq(q, 1, Len(q) - 1)) * 10 + DigitOf(q[Len(q)])

\* row.year[16..]
YearOf(row) == Tail(row.year)

\* total_compensation without "$", "," and "."
AmountOf(row) == Remove(Remove(Remove(row.total_compensation, "$"), ","), ".")

\* name.rsplit(", "), every part split at " ", flattened
NamesOf(row) ==
  LET parts == Reverse(Split(row.name, ", "))
  IN Flatten([i \in DOMAIN parts |-> Split(parts[i], " ")])

\* text LIKE pattern: "%" stands for any run of symbols, letters match
\* without regard to case
RECURSIVE Like(_, _)
Like(pattern, text) ==
  IF pattern = <<>> THEN text = <<>>
  ELSE IF Head(pattern) = "%"
  THEN \E k \in 0..Len(text) : Like(Tail(pattern), SubSeq(text, k + 1, Len(text)))
  ELSE /\ text # <<>>
       /\ LowerChar(Head(pattern)) = LowerChar(Head(text))
       /\ Like(Tail(pattern), Tail(text))

\* the rows of SELECT .. FROM Students WHERE Name LIKE names.join("%")
Matching(names, table) ==
  {id \in DOMAIN table : Like(Join(names, <<"%">>), table[id].name)}

\* the ids query_row can give: while no row matches and more than two names
\* are left, the second name is removed and the query repeated
RECURSIVE get_student_by_name(_, _)
get_student_by_name(names, table) ==
  IF Matching(names, table) # {} THEN Matching(names, table)
  ELSE IF Len(names) > 2
  THEN get_student_by_name(<<names[1]>> \o SubSeq(names, 3, Len(names)), table)
  ELSE {}

GraduateRows == SelectSeq(SalaryFile, LAMBDA row : row.job_title = "Graduate Student")

\* a row whose year or amount does not parse: unwrap panics
SalaryRowPanics(row) == ~IsNumber(YearOf(row)) \/ ~IsNumber(AmountOf(row))

\* process_salaries, with found[i] the student the lookup of row i gave
\* (<<>>: none)
RECURSIVE process_salaries(_, _)
process_salaries(rows, found) ==
  IF rows = <<>> THEN <<>>
  ELSE LET i == Len(rows)
           before == process_salaries(SubSeq(rows, 1, i - 1), found)
       IN IF found[i] = <<>> THEN before
          ELSE Append(before, [student_id |-> found[i],
                               year |-> ParseNumber(YearOf(rows[i])),
                               amount_usd |-> ParseNumber(AmountOf(rows[i]))])

\* PRIMARY KEY (StudentId, Year)
SalaryKey(r) == <<r.student_id, r.year>>

\* variant: INSERT INTO a table that has no key, every row is added
RECURSIVE InsertSalariesUnkeyed(_, _)
InsertSalariesUnkeyed(table, rows) ==
  IF rows = <<>> THEN table
  ELSE InsertSalariesUnkeyed(table \cup {Head(rows)}, Tail(rows))

\* INSERT OR REPLACE INTO Salaries of the rows of one statement, in order:
\* the stored row of the same key is deleted and the row inserted
RECURSIVE InsertSalaries(_, _)
InsertSalaries(table, rows) ==
  IF rows = <<>> THEN table
  ELSE InsertSalaries({r \in table : SalaryKey(r) # SalaryKey(Head(rows))} \cup {Head(rows)},
                      Tail(rows))

RECURSIVE StoreSalaryChunks(_, _)
StoreSalaryChunks(table, chunks) ==
  IF chunks = <<>> THEN table
  ELSE StoreSalaryChunks(InsertSalaries(table, Head(chunks)), Tail(chunks))

store_salaries(emitted, table) == StoreSalaryChunks(table, Chunks(emitted))

\* every chunk of every page, in the order run stores them
ChunksOf(pages) == Flatten([p \in DOMAIN pages |-> Chunks(pages[p])])

\* the rows the statements write, up to the statement that fails
RECURSIVE RowsStored(_)
RowsStored(chunks) ==
  IF chunks = <<>> THEN <<>>
  ELSE LET rows == SelectSeq(Head(chunks), LAMBDA r : r.tag = "Ok")
       IN IF rows = <<>> THEN <<>> ELSE rows \o RowsStored(Tail(chunks))

\* the task of site s ends (with the same result in every run); the tasks
\* live until run returns
SiteTaskCompletes(s, out) ==
  /\ rpc \in {"joining", "salaries"}
  /\ sites[s].st = "running"
  /\ sites[s].out \in {NoOutcome, out}
  /\ sites' = [sites EXCEPT ![s] = [st |-> "done", out |-> out]]
  /\ finished' = Append(finished, s)
  /\ UNCHANGED <<rpc, Students, Salaries, salaries, snapshot, log, lookup>>

\* one turn of "while let Some(Ok(Ok(pages))) = scrape_tasks.join_next()":
\* the pages of the site are stored; any other result ends the loop
RunJoinSite ==
  /\ rpc = "joining"
  /\ finished # <<>>
  /\ LET s == Head(finished)
         r == StorePages(Students, sites[s].out.pages)
     IN /\ sites' = [sites EXCEPT ![s].st = "joined"]
        /\ finished' = Tail(finished)
        /\ IF sites[s].out.tag # "Ok"
           THEN rpc' = "salaries" /\ UNCHANGED <<Students, log>>
           ELSE /\ Students' = r.table
                /\ log' = log \o RowsStored(ChunksOf(sites[s].out.pages))
                /\ rpc' = IF r.panic THEN "panicked" ELSE rpc
  /\ UNCHANGED <<Salaries, salaries, snapshot, lookup>>

\* join_next gives None: every task was joined
RunSitesDrained ==
  /\ rpc = "joining"
  /\ \A s \in Sites : sites[s].st = "joined"
  /\ rpc' = "salaries"
  /\ UNCHANGED <<sites, finished, Students, Salaries, salaries, snapshot, log, lookup>>

\* process_salaries and store_salaries, then run returns
SalaryPhase ==
  /\ rpc = "salaries"
  /\ IF \E i \in DOMAIN GraduateRows : SalaryRowPanics(GraduateRows[i])
     THEN rpc' = "panicked" /\ UNCHANGED <<Salaries, salaries>>
     ELSE /\ \E found \in [DOMAIN GraduateRows -> DOMAIN Students \cup {<<>>}] :
               /\ \A i \in DOMAIN GraduateRows :
                    LET ids == get_student_by_name(NamesOf(GraduateRows[i]), Students)
                    IN IF ids = {} THEN found[i] = <<>> ELSE found[i] \in ids
               /\ salaries' = process_salaries(GraduateRows, found)
               /\ Salaries' = store_salaries(salaries', Salaries)
          /\ rpc' = "done"
  /\ UNCHANGED <<sites, finished, Students, snapshot, log, lookup>>

\* the pipeline is started again over the same sites, on the tables the
\* first run left
RunAgain ==
  /\ rpc = "done"
  /\ ~snapshot.taken
  /\ snapshot' = [taken |-> TRUE, Students |-> Students, Salaries |-> Salaries]
  /\ sites' = [s \in Sites |-> [sites[s] EXCEPT !.st = "running"]]
  /\ finished' = <<>>
  /\ rpc' = "joining"
  /\ UNCHANGED <<Students, Salaries, salaries, log, lookup>>

RunInit ==
  /\ rpc = "joining"
  /\ sites = [s \in Sites |-> [st |-> "running", out |-> NoOutcome]]
  /\ finished = <<>>
  /\ Students = <<>>
  /\ Salaries = {}
  /\ salaries = <<>>
  /\ lookup = NoLookup
  /\ snapshot = NoSnapshot
  /\ log = <<>>
  /\ kind = "none" /\ paged_results = <<>> /\ cresult = "none"
  /\ PageIdle
  /\ CollegeIdle
  /\ ToolsIdle

RunNext ==
  \/ \E s \in Sites : \E out \in SiteOutcomes(s) :
       SiteTaskCompletes(s, out) /\ UNCHANGED <<sidle, pidle, cidle, hidle, midle>>
  \/ RunJoinSite /\ UNCHANGED <<sidle, pidle, cidle, hidle, midle>>
  \/ RunSitesDrained /\ UNCHANGED <<sidle, pidle, cidle, hidle, midle>>
  \/ SalaryPhase /\ UNCHANGED <<sidle, pidle, cidle, hidle, midle>>
  \/ RunAgain /\ UNCHANGED <<sidle, pidle, cidle, hidle, midle>>

RunSpec == RunInit /\ [][RunNext]_vars

\* the runtime runs every task that can take a step
RunFairSpec == RunSpec /\ WF_vars(RunNext)

\* ------------------------------------------------------------------------
\* store_students applied twice to one result sequence (StoreSpec)
\* ------------------------------------------------------------------------
\* rows of the result sequence
MaxStoreRows == 2

\* the entries of the result sequence: two records of the same id, a record
\* of another id, a Failure
StoreEntries == {SiteStudent(1), SiteStudent(2), SiteStudent(3), FailedRow}

\* the table before: empty, or holding a row of one of the ids
StoreTables ==
  {<<>>, InsertStudents(<<>>, <<SiteStudent(3)>>), InsertStudents(<<>>, <<SiteStudent(2)>>)}

\* store_students(&students, ..): the first application
StoreOnce ==
  /\ rpc = "store"
  /\ LET r == store_students(students, Students)
     IN /\ Students' = r.table
        /\ snapshot' = [taken |-> TRUE, Students |-> r.table, Salaries |-> Salaries]
  /\ rpc' = "stored_once"
  /\ UNCHANGED <<students, sites, finished, Salaries, salaries, log, lookup>>

\* store_students(&students, ..) again, the first having panicked or not
StoreTwice ==
  /\ rpc = "stored_once"
  /\ Students' = store_students(students, Students).table
  /\ rpc' = "stored_twice"
  /\ UNCHANGED <<students, sites, finished, Salaries, salaries, snapshot, log, lookup>>

StoreInit ==
  /\ rpc = "store"
  /\ students \in SeqsUpTo(StoreEntries, MaxStoreRows)
  /\ Students \in StoreTables
  /\ sites = <<>> /\ finished = <<>> /\ Salaries = {} /\ salaries = <<>>
  /\ lookup = NoLookup
  /\ snapshot = NoSnapshot /\ log = <<>>
  /\ kind = "none" /\ paged_results = <<>> /\ cresult = "none"
  /\ response = [items |-> <<>>] /\ req = <<>> /\ ser = <<>>
  /\ attempts = <<>> /\ replies = <<>> /\ read = <<>>
  /\ hpc = "idle" /\ hresult = "none"
  /\ CollegeIdle
  /\ ToolsIdle

\* what the applications of store_students leave alone
tidle == <<response, req, ser, attempts, replies, read, hpc, hresult>>

StoreNext ==
  \/ StoreOnce /\ UNCHANGED <<sidle, tidle, cidle, hidle, midle>>
  \/ StoreTwice /\ UNCHANGED <<sidle, tidle, cidle, hidle, midle>>

StoreSpec == StoreInit /\ [][StoreNext]_vars

\* C18: store_students applied twice in a row to the same result sequence
\* leaves the Students table as one application left it.
StoreIdempotent ==
  rpc = "stored_twice" => Students = snapshot.Students

\* a sequence with two Success entries of one id was stored twice, on a table
\* that held the id
StoreIdempotentWitness ==
  /\ rpc = "stored_twice"
  /\ students = <<SiteStudent(3), SiteStudent(1)>>
  /\ Students = InsertStudents(<<>>, <<SiteStudent(1)>>)
  /\ snapshot.taken

\* ------------------------------------------------------------------------
\* get_student_by_name and process_salaries of one row on a given store
\* (LookupSpec)
\* ------------------------------------------------------------------------
\* students of the store
MaxStored == 2

\* the tokens of the names asked
NameTokens == {<<"a">>, <<"b">>}

\* tokens of the names asked
MaxTokens == 4

\* the names asked
Queries == SeqsUpTo(NameTokens, MaxTokens)

\* the Name column of the stored students: three or four tokens, the first
\* "a" and the last "b"
StoredNames ==
  {Join(<<<<"a">>>> \o mid \o <<<<"b">>>>, <<" ">>) : mid \in [1..1 -> NameTokens] \cup [1..2 -> NameTokens]}

\* a store of the students of the given names, inserted in this order, and
\* the order a scan of the table gives them in
LookupStore(stored) ==
  [table |-> [id \in {<<ToString(i)>> : i \in DOMAIN stored} |->
                [name |-> stored[CHOOSE i \in DOMAIN stored : <<ToString(i)>> = id],
                 office |-> Office(<<>>, <<>>), college_id |-> <<"1">>]],
   order |-> [i \in DOMAIN stored |-> <<ToString(i)>>]]

\* the store with the student jdoe, the Name last name first
DoeStore ==
  [table |-> (<<"jdoe">> :> [name |-> <<"Doe", ", ", "Jane", " ", "Marie">>,
                             office |-> Office(<<>>, <<>>), college_id |-> <<"1">>]),
   order |-> << <<"jdoe">> >>]

\* the store with the student jdoe, the Name as store_students writes it
JaneStore ==
  [table |-> (<<"jdoe">> :> StudentRow(GraduateStudent(<<"jdoe">>,
                               << <<"Jane">>, <<"Marie">>, <<"Doe">> >>, Office(<<>>, <<>>)))),
   order |-> << <<"jdoe">> >>]

\* two students as an adapter emits them, the names first name first
ShortNamed == GraduateStudent(<<"p">>, << <<"a">>, <<"b">> >>, Office(<<>>, <<>>))

LongNamed == GraduateStudent(<<"q">>, << <<"a">>, <<"m">>, <<"b">> >>, Office(<<>>, <<>>))

\* the stores store_students makes of them on an empty table
WrittenStores ==
  {[table |-> store_students(page, <<>>).table,
    order |-> [i \in DOMAIN page |-> page[i].id]] :
     page \in {<<ShortNamed>>, <<LongNamed>>, <<ShortNamed, LongNamed>>, <<LongNamed, ShortNamed>>}}

LookupStores ==
  {LookupStore(stored) : stored \in SeqsUpTo(StoredNames, MaxStored)}
    \cup {DoeStore, JaneStore} \cup WrittenStores

\* the compensation row of fiscal year 2023 of Doe, Jane Q Marie
DoeRow ==
  [year |-> <<"P", "2", "0", "2", "3">>,
   name |-> <<"Doe", ", ", "Jane", " ", "Q", " ", "Marie">>,
   job_title |-> "Graduate Student",
   total_compensation |-> <<"$", "5", "0", ",", "0", "0", "0", ".", "0", "0">>]

CompensationRows == {DoeRow} \cup {SalaryFile[i] : i \in DOMAIN SalaryFile}

\* query_row: the first row that matches, in the order the table is scanned
\* (<<>>: no row)
QueryRow(names, table, order) ==
  LET hits == SelectSeq(order, LAMBDA id : id \in Matching(names, table))
  IN IF hits = <<>> THEN <<>> ELSE Head(hits)

\* variant: the one query of all the names, no name is removed
StudentByNameExact(names, table, order) == QueryRow(names, table, order)

\* get_student_by_name on a table scanned in the given order
RECURSIVE StudentByName(_, _, _)
StudentByName(names, table, order) ==
  IF QueryRow(names, table, order) # <<>> THEN QueryRow(names, table, order)
  ELSE IF Len(names) > 2
  THEN StudentByName(<<names[1]>> \o SubSeq(names, 3, Len(names)), table, order)
  ELSE <<>>

\* variant: a name is removed while more than one is left
RECURSIVE QueriesDownToOne(_, _, _)
QueriesDownToOne(names, table, order) ==
  <<names>> \o
    (IF QueryRow(names, table, order) = <<>> /\ Len(names) > 1
     THEN QueriesDownToOne(<<names[1]>> \o SubSeq(names, 3, Len(names)), table, order)
     ELSE <<>>)

\* the names of the queries get_student_by_name makes, in order
RECURSIVE QueriesMade(_, _, _)
QueriesMade(names, table, order) ==
  <<names>> \o
    (IF QueryRow(names, table, order) = <<>> /\ Len(names) > 2
     THEN QueriesMade(<<names[1]>> \o SubSeq(names, 3, Len(names)), table, order)
     ELSE <<>>)

\* get_student_by_name(&names, ..)
LookupLong ==
  /\ rpc = "lookup"
  /\ LET asked == QueriesMade(lookup.names, Students, lookup.order)
     IN lookup' = [lookup EXCEPT !.asked = asked,
                                 !.long = QueryRow(asked[Len(asked)], Students, lookup.order)]
  /\ rpc' = "long"
  /\ UNCHANGED <<students, sites, finished, Students, Salaries, salaries, snapshot, log>>

\* get_student_by_name(&[a, c, d], ..)
LookupShort ==
  /\ rpc = "long" /\ Len(lookup.names) = 4
  /\ lookup' = [lookup EXCEPT
                  !.short = StudentByName(<<lookup.names[1], lookup.names[3], lookup.names[4]>>,
                                          Students, lookup.order)]
  /\ rpc' = "looked"
  /\ UNCHANGED <<students, sites, finished, Students, Salaries, salaries, snapshot, log>>

\* process_salaries on a file of the one row
ProcessRow(row) ==
  /\ rpc = "lookup"
  /\ lookup' = [lookup EXCEPT !.row = row]
  /\ LET rows == SelectSeq(<<row>>, LAMBDA r : r.job_title = "Graduate Student")
     IN IF \E i \in DOMAIN rows : SalaryRowPanics(rows[i])
        THEN rpc' = "panicked" /\ UNCHANGED salaries
        ELSE /\ salaries' = process_salaries(rows,
                  [i \in DOMAIN rows |-> StudentByName(NamesOf(rows[i]), Students, lookup.order)])
             /\ rpc' = "processed"
  /\ UNCHANGED <<students, sites, finished, Students, Salaries, snapshot, log>>

LookupInit ==
  /\ rpc = "lookup"
  /\ \E store \in LookupStores :
       /\ Students = store.table
       /\ lookup \in {[NoLookup EXCEPT !.names = q, !.order = store.order] : q \in Queries}
  /\ students = <<>> /\ sites = <<>> /\ finished = <<>>
  /\ Salaries = {} /\ salaries = <<>>
  /\ snapshot = NoSnapshot /\ log = <<>>
  /\ kind = "none" /\ paged_results = <<>> /\ cresult = "none"
  /\ response = [items |-> <<>>] /\ req = <<>> /\ ser = <<>>
  /\ attempts = <<>> /\ replies = <<>> /\ read = <<>>
  /\ hpc = "idle" /\ hresult = "none"
  /\ CollegeIdle
  /\ ToolsIdle

LookupNext ==
  \/ LookupLong /\ UNCHANGED <<sidle, tidle, cidle, hidle, midle>>
  \/ LookupShort /\ UNCHANGED <<sidle, tidle, cidle, hidle, midle>>
  \/ \E row \in CompensationRows : ProcessRow(row) /\ UNCHANGED <<sidle, tidle, cidle, hidle, midle>>

LookupSpec == LookupInit /\ [][LookupNext]_vars

\* C23: with the student jdoe stored under the Name "Doe, Jane Marie", the
\* Graduate Student row "Doe, Jane Q Marie" of fiscal year 2023 and
\* $50,000.00 gives the salary (jdoe, 2023, 5000000).
SalaryJoinElidesMiddleName ==
  (rpc = "processed" /\ Students = DoeStore.table /\ lookup.row = DoeRow) =>
    salaries = <<[student_id |-> <<"jdoe">>, year |-> 2023, amount_usd |-> 5000000]>>

\* the row of Doe, Jane Q Marie was processed on the store with the Name
\* "Jane Marie Doe"
DoeRowOnJaneStore ==
  rpc = "processed" /\ Students = JaneStore.table /\ lookup.row = DoeRow

\* C23 (amended): with the student jdoe stored under the Name
\* "Jane Marie Doe", the row gives the salary (jdoe, 2023, 5000000): the query
\* of the four names matches no row, the query without the second name
\* matches jdoe.
SalaryJoinElidesStoredMiddleName ==
  DoeRowOnJaneStore =>
    /\ salaries = <<[student_id |-> <<"jdoe">>, year |-> 2023, amount_usd |-> 5000000]>>
    /\ QueryRow(NamesOf(DoeRow), Students, lookup.order) = <<>>
    /\ QueryRow(<< <<"Jane">>, <<"Marie">>, <<"Doe">> >>, Students, lookup.order) = <<"jdoe">>

SalaryJoinElidesStoredMiddleNameWitness ==
  DoeRowOnJaneStore /\ Len(salaries) = 1

\* C24: when get_student_by_name of [a, b, c, d] returns a student,
\* get_student_by_name of [a, c, d] returns the same student.
LookupMonotone ==
  (rpc = "looked" /\ lookup.long # <<>>) => lookup.short = lookup.long

\* ------------------------------------------------------------------------
\* Properties of run (RunSpec)
\* ------------------------------------------------------------------------
Stored(page) == \A i \in DOMAIN page : page[i].tag = "Ok" => page[i].id \in DOMAIN Students

SiteStored(s) == \A p \in DOMAIN sites[s].out.pages : Stored(sites[s].out.pages[p])

\* C1: whatever the order the site tasks complete in, when run is over the
\* students of every site whose task gave its pages are stored, also when
\* the task of another site gave an error or panicked.
StorageSurvivesSiteFailure ==
  rpc = "done" =>
    \A s \in Sites : (sites[s].st # "running" /\ sites[s].out.tag = "Ok") => SiteStored(s)

\* C2: the salary phase begins only after every site task has completed and
\* been joined, with its pages stored.
SalaryAfterAllSites ==
  rpc \in {"salaries", "done"} =>
    \A s \in Sites : sites[s].st = "joined" /\ SiteStored(s)

\* ------------------------------------------------------------------------
\* Properties of scrape_college (Spec)
\* ------------------------------------------------------------------------
Scheduled == cpc \in {"join_requests", "join_serializations", "join_scrapes", "returned"}
             /\ chain # <<>>

\* the pages scheduled after the initial one
ExtraFetches == Len(wire) - 1

ChainFailed(c) == chain[c].val # "ok"

ChainHasRows(c) == chain[c].val = "ok" /\ chain[c].content = "rows"

InList(page) == \E i \in DOMAIN paged_results : paged_results[i] = page

\* C7 as claimed: a failure of one page after the initial one leaves the
\* site's result Ok, with the pages of the other chains in it.
SiblingPagesSurvive ==
  (/\ cpc = "returned" /\ version = "app" /\ chain # <<>>
   /\ \E c \in DOMAIN chain : c > 1 /\ ChainFailed(c))
  => /\ cresult = "Ok"
     /\ \A d \in DOMAIN chain :
          (chain[d].st = "joined" /\ ChainHasRows(d)) => InList(<<d>>)

StatusOf(val) == IF val = "Panic" THEN "Internal" ELSE val

\* C7 amended: the failure of a page is carried through its stage chain and
\* returned by scrape_college as the site's error; the page-list is returned
\* only when no page failed, and then holds every page that has rows.
PageFailureAbortsSite ==
  (cpc = "returned" /\ version = "app" /\ chain # <<>>)
  => /\ (\E c \in DOMAIN chain : ChainFailed(c)) => cresult # "Ok"
     /\ cresult # "Ok" =>
          \E c \in DOMAIN chain :
            chain[c].st = "joined" /\ StatusOf(chain[c].val) = cresult
     /\ cresult = "Ok" =>
          /\ \A c \in DOMAIN chain : chain[c].st = "joined"
          /\ \A c \in DOMAIN chain : ChainHasRows(c) <=> InList(<<c>>)
          /\ Len(paged_results) = Cardinality({c \in DOMAIN chain : ChainHasRows(c)})

\* a page after the initial one failed, another page had been collected,
\* and the site returned the error
PageFailureAbortsSiteWitness ==
  /\ cpc = "returned" /\ version = "app" /\ cresult \notin {"Ok", "none"}
  /\ \E c \in DOMAIN chain : c > 1 /\ ChainFailed(c) /\ chain[c].st = "joined"
  /\ paged_results # <<>>

\* C8: with TotalPages = T >= 1 the paged-JSON site sends T requests whose
\* CurrentPageNumber values are 1..T, each once.
WireIsOneToT ==
  (Scheduled /\ kind = "json" /\ total_pages >= 1)
  => /\ Len(wire) = total_pages
     /\ \A p \in 1..total_pages :
          Cardinality({i \in DOMAIN wire : wire[i] = p}) = 1

\* C9 as claimed: the two-phase site schedules floor(totalposts / postcount)
\* fetches after the initial one.
FloorFetchesAfterInitial ==
  (Scheduled /\ kind = "health") => ExtraFetches = meta.a \div meta.b

\* C9 amended: it schedules floor(totalposts / postcount) - 1 fetches after
\* the initial one, none when the quotient is 0 or 1.
FloorFetchesWithInitial ==
  (Scheduled /\ kind = "health")
  => ExtraFetches = IF meta.a \div meta.b >= 1 THEN meta.a \div meta.b - 1 ELSE 0

FloorFetchesWitness ==
  /\ Scheduled /\ kind = "health"
  /\ meta.a \div meta.b = 3 /\ meta.a = 3 /\ ExtraFetches = 2

\* C10: with total_pages = 1 there is one scrape task and no fetch after
\* the initial one.
OnePageOneScrape ==
  (Scheduled /\ total_pages = 1) => (Len(chain) = 1 /\ ExtraFetches = 0)

\* the initial response was deserialized
InitialDeserialized ==
  cpc \notin {"idle", "start"} /\ Deserialize(kind, exchange) = "ok"

\* C11: total_pages of the initial response is a value >= 1 or fails with
\* NotFound; it is never 0 and it never panics.
TotalPagesAtLeastOne ==
  InitialDeserialized =>
    LET t == TotalPagesOf(kind, meta)
    IN t.out = "NotFound" \/ (t.out = "Ok" /\ t.n >= 1)

NonOk(x) == x.sent /\ x.status # 200

\* C12: a response whose status is not a success status gives Internal for
\* its page, for every adapter: scrape_college returns Err(Internal) when it
\* is the initial response, and the body is never scraped.
NonOkIsInternal ==
  version = "app" =>
    /\ (cpc \notin {"idle", "start"} /\ NonOk(exchange))
       => (cpc = "returned" /\ cresult = "Internal" /\ chain = <<>>)
    /\ \A c \in DOMAIN chain :
         (c > 1 /\ chain[c].st \in {"deserialized", "scraping", "scraped", "joined"}
          /\ NonOk(chain[c].x))
         => chain[c].val = "Internal"

\* scrape ran on an initial response without student list
InitialWithoutList ==
  /\ cpc = "returned" /\ version = "app" /\ kind \in {"json", "health"}
  /\ chain # <<>> /\ chain[1].st \in {"scraped", "joined"}
  /\ exchange.body = "nolist"

\* C13 as claimed: when the initial response has no student list,
\* scrape_college returns Err(NotFound).
InitialWithoutListIsNotFound ==
  InitialWithoutList => cresult = "NotFound"

\* C13 amended: scrape of the initial response fails with NotFound and
\* scrape_college returns an error, never a page-list; the error is NotFound
\* unless the error of another page of the site was joined before it.
InitialWithoutListIsError ==
  InitialWithoutList =>
    /\ chain[1].val = "NotFound"
    /\ cresult # "Ok"
    /\ \/ cresult = "NotFound" /\ chain[1].st = "joined"
       \/ \E c \in DOMAIN chain :
            c > 1 /\ chain[c].st = "joined" /\ StatusOf(chain[c].val) = cresult
    /\ Len(chain) = 1 => cresult = "NotFound"

InitialWithoutListWitness ==
  /\ InitialWithoutList /\ Len(chain) = 2 /\ chain[1].st = "joined"
  /\ cresult = "NotFound" /\ paged_results # <<>>

\* C14: a fetch that could not be sent or got no response is reported as
\* NotFound, for every adapter.
TransportErrorIsNotFound ==
  version = "app" =>
    /\ (cpc \notin {"idle", "start"} /\ ~exchange.sent)
       => (cpc = "returned" /\ cresult = "NotFound")
    /\ \A c \in DOMAIN chain :
         (c > 1 /\ chain[c].st \in {"deserialized", "scraping", "scraped", "joined"}
          /\ ~chain[c].x.sent)
         => chain[c].val = "NotFound"

\* ------------------------------------------------------------------------
\* Properties of a page's results (PageSpec)
\* ------------------------------------------------------------------------
\* C15: every Success of a page has a non-empty id, and an email that is
\* empty or holds '@'.
SuccessWellFormed ==
  \A k \in DOMAIN students :
    students[k].tag = "Ok" =>
      /\ students[k].id # <<>>
      /\ (students[k].email = <<>> \/ Contains(students[k].email, "@"))

\* C16: the entries of a page's results are in the order of their rows.
RowOrderPreserved ==
  \A j, k \in DOMAIN students : j < k => students[j].row <= students[k].row

\* C17: when scrape has returned the page, every row has exactly one entry
\* in it, also the rows whose detail-page request failed.
OneEntryPerRow ==
  (ScrapeReturned /\ hresult = "Ok") =>
    \A i \in Rows : Cardinality(EntriesOf(i)) = 1

\* C19: a second run over the same sites ends with the Students and Salaries
\* tables as the first run left them, whatever the order the sites complete
\* in.
RunsAgree ==
  (rpc = "done" /\ snapshot.taken) =>
    (Students = snapshot.Students /\ Salaries = snapshot.Salaries)

\* the ids of the rows written so far
LoggedIds == {log[i].id : i \in DOMAIN log}

\* the last row written for an id
LastLogged(id) ==
  log[CHOOSE i \in DOMAIN log :
        log[i].id = id /\ \A j \in DOMAIN log : log[j].id = id => j <= i]

AllSitesSucceeded ==
  /\ rpc \in {"salaries", "done"}
  /\ \A s \in Sites : sites[s].st = "joined" /\ sites[s].out.tag = "Ok"

\* C20: when every site succeeded, whatever order they were joined in, the
\* Students table has one row for every id stored and no other, and the row
\* of an id is the record stored last for it.
LastWriterWins ==
  AllSitesSucceeded =>
    /\ DOMAIN Students = LoggedIds
    /\ \A id \in LoggedIds :
         Students[id] = StudentRow(LastLogged(id))

\* all sites succeeded, two of them stored a different record for one id and
\* a third stored another id
LastWriterWinsWitness ==
  /\ AllSitesSucceeded /\ ~snapshot.taken
  /\ \E i, j \in DOMAIN log : i < j /\ log[i].id = log[j].id /\ log[i] # log[j]
  /\ Cardinality(LoggedIds) = 2

\* the first row written for an id
FirstLogged(id) ==
  log[CHOOSE i \in DOMAIN log :
        log[i].id = id /\ \A j \in DOMAIN log : log[j].id = id => i <= j]

\* C21: the stored office of a student id is the office of the first record
\* stored for the id; a later store of the id with another office, or an
\* empty one, leaves building and room as they were.
OfficeWriteOnce ==
  \A id \in LoggedIds \cap DOMAIN Students :
    Students[id].office = FirstLogged(id).office

\* the (student_id, year) pairs of the salaries process_salaries emitted
EmittedKeys == {SalaryKey(salaries[i]) : i \in DOMAIN salaries}

\* C22: after store_salaries every (student_id, year) pair among the emitted
\* salaries has exactly one Salaries row, also when several compensation rows
\* reconcile to one student and year and in a second run.
OneSalaryPerStudentYear ==
  rpc = "done" =>
    \A key \in EmittedKeys : Cardinality({r \in Salaries : SalaryKey(r) = key}) = 1

\* the second run stored salaries of which two, of different amounts, are of
\* one student and year
OneSalaryPerStudentYearWitness ==
  /\ rpc = "done" /\ snapshot.taken
  /\ \E i, j \in DOMAIN salaries :
       /\ SalaryKey(salaries[i]) = SalaryKey(salaries[j])
       /\ salaries[i].amount_usd # salaries[j].amount_usd

\* C25: store_students skips the Failure entries and stores the Successes: a
\* site whose pages were handed to it, a page of Failures only among them,
\* is stored without a panic.
FailuresAreSkipped ==
  \A s \in Sites :
    (sites[s].st = "joined" /\ sites[s].out.tag = "Ok") =>
      (rpc # "panicked" /\ SiteStored(s))

\* C26: whatever errors the sites give, run comes to the salary phase and
\* returns, and "Pipeline Done" is printed.
PipelineDone == <>(rpc = "done")

\* scrape_college is over: it returned, or its future was dropped
CollegeOver == cpc \in {"returned", "dropped"}

\* C27: when the future of scrape_college is dropped, or returns early with
\* an error, none of the fetch, deserialize and scrape tasks it spawned is
\* left running.
OutstandingTasksCancelled ==
  CollegeOver => \A c \in DOMAIN chain : ~Running_(c)

\* scrape_college returned the error of a page while the scrape of another
\* page was running, and that task was aborted
OutstandingTasksCancelledWitness ==
  /\ cpc = "returned" /\ cresult \notin {"Ok", "none"}
  /\ \E c \in DOMAIN chain : chain[c].st = "aborted"

\* the pages from the one the fan-out starts at to the last
PagesToFetch ==
  LET first == FirstPage(version, current_page_of(kind, DefaultRequest(kind)))
  IN IF first < total_pages THEN total_pages - first ELSE 0

\* C28: the fetch of every page after the initial one is spawned before a
\* scrape result is awaited: from the fan-out on there is a fetch task for
\* every page, the scrape of the initial page among the running tasks, and
\* no scrape result is joined while a fetch is outstanding.
FetchesScheduledBeforeScrapes ==
  /\ Scheduled => Len(chain) = 1 + PagesToFetch
  /\ \A c, d \in DOMAIN chain : chain[c].st = "joined" => chain[d].st # "fetching"

\* the fetches of two further pages have ended, one of them is deserialized,
\* and the scrape of the initial page is still running
FetchesScheduledBeforeScrapesWitness ==
  /\ cpc = "join_requests" /\ Len(chain) = 3
  /\ chain[1].st = "scraping"
  /\ chain[2].st = "fetched" /\ chain[3].st = "deserialized"

\* the paged-JSON scrape gave its page
JsonPageScraped == ScrapeReturned /\ kind = "json" /\ hresult = "Ok"

\* C29: the entry of a Data record is a Success whose id is the stralias when
\* there is one, else the lowercased part of Email before '@'; a record
\* with neither has the entry Failure(NotFound) and no Success.
JsonIdRule ==
  JsonPageScraped =>
    \A i \in Rows :
      LET record == response.items[i] IN
        /\ record.id.some =>
             \A k \in EntriesOf(i) : students[k].tag = "Ok" /\ students[k].id = record.id.v
        /\ (~record.id.some /\ record.email.some) =>
             \A k \in EntriesOf(i) :
               /\ students[k].tag = "Ok"
               /\ students[k].id = ToLowercase(SplitFirst(record.email.v, "@"))
        /\ (~record.id.some /\ ~record.email.some) =>
             \A k \in EntriesOf(i) : students[k].tag = "NotFound"
        /\ EntriesOf(i) # {}

\* a page with a record that has both stralias and Email, and a record that
\* has neither
JsonIdRuleWitness ==
  /\ JsonPageScraped
  /\ \E i, j \in Rows :
       /\ response.items[i].id.some /\ response.items[i].email.some
       /\ ~response.items[j].id.some /\ ~response.items[j].email.some

\* the scrapes that gave a page with an entry
PagesWithResults == {c \in DOMAIN chain : ChainHasRows(c)}

\* C30: the page-list of scrape_college holds no empty page: a page without
\* results is dropped without an error, and the list returned has as many
\* pages as there were scrapes that gave an entry.
NoEmptyPageInList ==
  version = "app" =>
    /\ \A i \in DOMAIN paged_results : paged_results[i] # <<>>
    /\ (cpc = "returned" /\ cresult = "Ok") =>
         /\ Len(paged_results) = Cardinality(PagesWithResults)
         /\ \A c \in PagesWithResults : InList(<<c>>)

\* scrape_college returned Ok with a page in the list, the scrape of
\* another page having given no results
NoEmptyPageInListWitness ==
  /\ version = "app" /\ cpc = "returned" /\ cresult = "Ok"
  /\ paged_results # <<>>
  /\ \E c \in DOMAIN chain : chain[c].val = "ok" /\ chain[c].content = "empty"

\* the chains scrape_college can have: the initial page and the further ones
Chains == 1..(MaxPages + 1)

\* the stage the chain of a page is at
StageOf(c) == IF c \in DOMAIN chain THEN chain[c].st ELSE "none"

\* C31: the scrape of a page is spawned as soon as the deserialize of the
\* page has ended, whether or not the fetches and deserializes of the other
\* pages have ended.
ScrapeFollowsDeserialize ==
  \A c \in Chains :
    [](StageOf(c) = "deserialized" => <>(CollegeOver \/ StageOf(c) # "deserialized"))

Max(a, b) == IF a >= b THEN a ELSE b

\* the names without the second
WithoutSecond(names) == <<names[1]>> \o SubSeq(names, 3, Len(names))

\* C32: get_student_by_name of n names makes at most max(1, n - 1) queries:
\* every query but the last matched no row, each query is of the names of
\* the one before without the second, none is of fewer than two names when
\* n >= 2, and no student is returned when the last query matched none.
LookupQueriesBounded ==
  rpc \in {"long", "looked"} =>
    LET asked == lookup.asked
        n == Len(lookup.names)
    IN /\ Len(asked) >= 1 /\ Len(asked) <= Max(1, n - 1)
       /\ asked[1] = lookup.names
       /\ \A k \in 1..(Len(asked) - 1) :
            /\ Matching(asked[k], Students) = {}
            /\ asked[k + 1] = WithoutSecond(asked[k])
       /\ n >= 2 => \A k \in DOMAIN asked : Len(asked[k]) >= 2
       /\ lookup.long = StudentByName(lookup.names, Students, lookup.order)
       /\ IF Matching(asked[Len(asked)], Students) = {}
          THEN lookup.long = <<>> /\ Len(asked[Len(asked)]) <= 2
          ELSE lookup.long \in Matching(asked[Len(asked)], Students)

\* four names were asked, three queries made, and the last one matched
LookupQueriesBoundedWitness ==
  /\ rpc = "long" /\ Len(lookup.names) = 4
  /\ Len(lookup.asked) = 3 /\ lookup.long # <<>>

\* the ids of the Success entries of the sequence handed to store_students
StoredIds == {students[k].id : k \in {j \in DOMAIN students : students[j].tag = "Ok"}}

\* the last Success entry of an id
LastEntry(id) ==
  students[CHOOSE k \in DOMAIN students :
             /\ students[k].tag = "Ok" /\ students[k].id = id
             /\ \A j \in DOMAIN students :
                  (students[j].tag = "Ok" /\ students[j].id = id) => j <= k]

StoreReturned == rpc \in {"stored_once", "stored_twice"}

StoreThenJoin ==
  (rpc = "processed" /\ lookup.row.job_title = "Graduate Student") =>
    \A id \in DOMAIN Students :
      Students[id].name = StudentRow(GraduateStudent(id, NamesOf(lookup.row), Office(<<>>, <<>>))).name
        => /\ Len(salaries) = 1
           /\ salaries[1].student_id = id

\* a list row without name link, without href on the link, without
\* department cell or without name text
ListRowLacks(row) == ~row.link \/ ~row.href \/ ~row.dept \/ ~row.text

HealthListRead == kind = "health" /\ response.html = "ok" /\ hpc # "start"

\* C35: a list row of the two-phase adapter that lacks the name link, the
\* href, the department element or the name text is in the results as one
\* Failure(NotFound), and no detail-page request is made for it.
ListRowFailureNotFound ==
  HealthListRead =>
    \A i \in Rows :
      ListRowLacks(response.items[i])
      => /\ attempts[i] = 0
         /\ req[i].st = "idle" /\ ser[i].st = "idle"
         /\ Cardinality(EntriesOf(i)) = 1
         /\ \A k \in EntriesOf(i) : students[k] = Failure(i, "NotFound")

\* scrape returned for a page of a row without department cell and a row
\* that was requested
ListRowFailureNotFoundWitness ==
  /\ HealthListRead /\ hpc = "scraped"
  /\ \E i, j \in Rows :
       /\ response.items[i] = [link |-> TRUE, href |-> TRUE, text |-> TRUE, dept |-> FALSE]
       /\ attempts[j] > 0

\* a detail page with the email element, the link without an address: no
\* href, or an href that is no address
NoAddressBodies ==
  {[kind |-> "elem", href |-> None], [kind |-> "elem", href |-> Some(<<"t">>)]}

NoElementBody == [kind |-> "noelem", href |-> None]

\* C36: when scrape of the two-phase adapter has returned, a row whose
\* detail page was read and has an email link without an address has the
\* one entry Failure(InvalidArgument), a row whose detail page was read and
\* has no email element has the one entry Failure(NotFound); neither has a
\* Success.
DetailPageFailure ==
  (kind = "health" /\ ScrapeReturned) =>
    \A i \in Rows :
      /\ read[i] \in NoAddressBodies
           => {students[k] : k \in EntriesOf(i)} = {Failure(i, "InvalidArgument")}
      /\ read[i] = NoElementBody
           => {students[k] : k \in EntriesOf(i)} = {Failure(i, "NotFound")}

\* ------------------------------------------------------------------------
\* scrape_html: the directory rows of a parsed document (HtmlSpec)
\* ------------------------------------------------------------------------
\* rows of the document
MaxDomRows == 2

\* name selectors of the configuration
MaxSelectors == 2

NameSelectors == {"a", "span"}

\* A row of the document: per selector, the elements it matches inside the
\* row, in document order.
DomRows ==
  [a : SeqsUpTo({"a1", "a2"}, 2) \ {<<"a2">>, <<"a2", "a1">>, <<"a1", "a1">>, <<"a2", "a2">>},
   span : {<<>>, <<"s1">>},
   td : {<<>>, <<"d1">>}]

\* Html: the errors html5ever recorded and the elements the row selector
\* matches, in document order
Doms == [errors : BOOLEAN, rows : SeqsUpTo(DomRows, MaxDomRows)]

\* ScrapperSelectors (directory_row_selector, name_selector,
\* department_selector; "[": a selector that does not parse)
SelectorSets ==
  [directory_row_selector : {".row", "["},
   name_selector : {None} \cup {Some(q) : q \in SeqsUpTo(NameSelectors, MaxSelectors)},
   department_selector : {None, Some(<<"td">>), Some(<<"[">>)}]

\* entry.select(&selector).next()
FirstMatch(entry, selector) ==
  IF entry[selector] = <<>> THEN None ELSE Some(entry[selector][1])

\* variant: the selectors without a match are left out
NameElementsOfMatched(entry, name_selectors) ==
  LET matched == SelectSeq(name_selectors.v, LAMBDA sel : entry[sel] # <<>>)
  IN IF ~name_selectors.some THEN None
     ELSE Some([k \in DOMAIN matched |-> entry[matched[k]][1]])

\* name_elements: the first matches of the name selectors collected into an
\* Option<Vec<_>>, None as soon as one selector has no match
NameElements(entry, name_selectors) ==
  IF ~name_selectors.some THEN None
  ELSE IF \E k \in DOMAIN name_selectors.v : ~FirstMatch(entry, name_selectors.v[k]).some
  THEN None
  ELSE Some([k \in DOMAIN name_selectors.v |-> FirstMatch(entry, name_selectors.v[k]).v])

\* department_element: None without selector or with one that does not parse
DepartmentElement(entry, department_selector) ==
  IF ~department_selector.some \/ department_selector.v = <<"[">> THEN None
  ELSE FirstMatch(entry, department_selector.v[1])

DirectoryRow(entry) ==
  [name_elements |-> NameElements(entry, selectors.name_selector),
   department_element |-> DepartmentElement(entry, selectors.department_selector)]

\* scrape_html(&selectors, &dom): Selector::parse of the row selector is
\* unwrapped, the rows are mapped in document order
ScrapeHtml ==
  /\ epc = "call"
  /\ IF selectors.directory_row_selector = "["
     THEN epc' = "panicked" /\ UNCHANGED directory_rows
     ELSE /\ directory_rows' = [i \in DOMAIN dom.rows |-> DirectoryRow(dom.rows[i])]
          /\ epc' = "returned"
  /\ UNCHANGED <<selectors, dom>>

HtmlInit ==
  /\ selectors \in SelectorSets
  /\ dom \in Doms
  /\ directory_rows = <<>>
  /\ epc = "call"
  /\ args = "none" /\ scripts = {} /\ database = "none" /\ transaction = NoTransaction
  /\ mpc = "idle"
  /\ kind = "none" /\ paged_results = <<>> /\ cresult = "none"
  /\ PageIdle /\ CollegeIdle /\ RunIdle

HtmlNext ==
  \/ ScrapeHtml /\ UNCHANGED <<sidle, pidle, cidle, ridle, midle>>

HtmlSpec == HtmlInit /\ [][HtmlNext]_vars

\* the elements of an Option<Vec<_>>
ElementsOf(opt) == IF opt.some THEN opt.v ELSE <<>>

\* C37: the name elements of a row are the first matches of the configured
\* name selectors that match inside the row, in the order of the
\* configuration; a selector without a match is left out and the matches of
\* the others stay.
NameElementsSkipUnmatched ==
  (epc = "returned" /\ selectors.name_selector.some) =>
    \A i \in DOMAIN dom.rows :
      ElementsOf(directory_rows[i].name_elements)
        = ElementsOf(NameElementsOfMatched(dom.rows[i], selectors.name_selector))

\* C38: scrape_html fails with InvalidArgument on a document with parse
\* errors, and returns the empty sequence, without error, on a document
\* without parse errors in which the row selector matches nothing.
ParseErrorsInvalidArgument ==
  (epc \notin {"call", "panicked"}) =>
    /\ dom.errors => epc = "InvalidArgument"
    /\ (~dom.errors /\ dom.rows = <<>>) => (epc = "returned" /\ directory_rows = <<>>)

\* the sites whose adapter emitted a Success of the id
ScrapedBy(id) ==
  {s \in Sites :
     /\ sites[s].out.tag = "Ok"
     /\ \E p \in DOMAIN sites[s].out.pages : \E i \in DOMAIN sites[s].out.pages[p] :
          sites[s].out.pages[p][i].tag = "Ok" /\ sites[s].out.pages[p][i].id = id}

\* C39: a row of the Students table carries the CollegeId of the College of
\* a site adapter that scraped the student, and students scraped by the
\* adapters of different colleges have different CollegeId.
CollegeIdOfScraper ==
  /\ \A id \in DOMAIN Students :
       \E s \in ScrapedBy(id) : Students[id].college_id = CollegeOf(s).id
  /\ \A id1, id2 \in DOMAIN Students :
       ScrapedBy(id1) \cap ScrapedBy(id2) = {}
         => Students[id1].college_id # Students[id2].college_id

\* ------------------------------------------------------------------------
\* migrate: main of the migration runner (MigrateSpec)
\* ------------------------------------------------------------------------
\* the highest id of a migration file, and the highest version stored
MaxVersion == 2

\* the files of the migrations directory: <id>_<direction>.sql
MigrationFiles == [id : 1..MaxVersion, direction : {"up", "down"}]

\* the command line: the direction ("sideways": neither up nor down) and
\* the optional target version
MigrateArgs ==
  [direction : {"up", "down", "sideways"},
   target : {None} \cup {Some(v) : v \in 0..(MaxVersion + 1)}]

\* the ids of a set in ascending order
RECURSIVE Ascending(_)
Ascending(S) ==
  IF S = {} THEN <<>>
  ELSE LET m == CHOOSE x \in S : \A y \in S : x <= y
       IN <<m>> \o Ascending(S \ {m})

\* the migrations of the direction, sorted: up ascending, down descending
SortedMigrations(files, direction) ==
  LET ids == Ascending({f.id : f \in {g \in files : g.direction = direction}})
  IN IF direction = "up" THEN ids ELSE Reverse(ids)

\* target_version: the argument, else the id of the last migration (up) or
\* the one before it (down)
TargetVersion(direction, target, migrations) ==
  IF target.some THEN target.v
  ELSE IF direction = "up" THEN migrations[Len(migrations)]
  ELSE migrations[Len(migrations)] - 1

\* the migration is not skipped by the match of the loop
Applies(direction, id, current_version, target_version) ==
  IF direction = "up" THEN current_version < id /\ id <= target_version
  ELSE id <= current_version /\ target_version < id

\* main up to connection.transaction(): the direction is parsed, the row of
\* Migration is read (and inserted with Version 0 when there is none), the
\* directory is read and sorted and the target version is computed
MigrateBegin ==
  /\ mpc = "start"
  /\ IF args.direction = "sideways"
     THEN mpc' = "panicked" /\ UNCHANGED <<database, transaction>>
     ELSE LET current_version == IF database.version.some THEN database.version.v ELSE 0
              migrations == SortedMigrations(scripts, args.direction)
          IN /\ database' = [database EXCEPT !.version = Some(current_version)]
             /\ IF ~args.target.some /\ migrations = <<>>
                THEN mpc' = "panicked" /\ UNCHANGED transaction
                ELSE /\ transaction' =
                          [open |-> TRUE, current_version |-> current_version,
                           target_version |-> TargetVersion(args.direction, args.target, migrations),
                           migrations |-> migrations, executed |-> <<>>]
                     /\ mpc' = "applying"
  /\ UNCHANGED <<args, scripts>>

\* one turn of the loop over the migrations: the migration is skipped, or
\* its script is executed in the transaction
MigrateApply ==
  /\ mpc = "applying" /\ transaction.migrations # <<>>
  /\ LET id == Head(transaction.migrations)
     IN transaction' =
          [transaction EXCEPT
             !.migrations = Tail(@),
             !.executed = IF Applies(args.direction, id, transaction.current_version,
                                     transaction.target_version)
                          THEN Append(@, [id |-> id, direction |-> args.direction])
                          ELSE @]
  /\ UNCHANGED <<args, scripts, database, mpc>>

\* execute_batch of the script fails: unwrap panics, the transaction is
\* dropped and rolled back
MigrateScriptFails ==
  /\ mpc = "applying" /\ transaction.migrations # <<>>
  /\ Applies(args.direction, Head(transaction.migrations), transaction.current_version,
             transaction.target_version)
  /\ transaction' = [transaction EXCEPT !.open = FALSE, !.executed = <<>>]
  /\ mpc' = "panicked"
  /\ UNCHANGED <<args, scripts, database>>

\* UPDATE Migration SET Version = target_version; commit
MigrateCommit ==
  /\ mpc = "applying" /\ transaction.migrations = <<>>
  /\ database' = [version |-> Some(transaction.target_version),
                  executed |-> database.executed \o transaction.executed]
  /\ transaction' = [transaction EXCEPT !.open = FALSE]
  /\ mpc' = "done"
  /\ UNCHANGED <<args, scripts>>

MigrateInit ==
  /\ args \in MigrateArgs
  /\ scripts \in SUBSET MigrationFiles
  /\ database \in [version : {None} \cup {Some(v) : v \in 0..MaxVersion}, executed : {<<>>}]
  /\ transaction = NoTransaction
  /\ mpc = "start"
  /\ selectors = "none" /\ dom = "none" /\ directory_rows = <<>> /\ epc = "idle"
  /\ kind = "none" /\ paged_results = <<>> /\ cresult = "none"
  /\ PageIdle /\ CollegeIdle /\ RunIdle

MigrateNext ==
  \/ MigrateBegin /\ UNCHANGED <<sidle, pidle, cidle, ridle, hidle>>
  \/ MigrateApply /\ UNCHANGED <<sidle, pidle, cidle, ridle, hidle>>
  \/ MigrateScriptFails /\ UNCHANGED <<sidle, pidle, cidle, ridle, hidle>>
  \/ MigrateCommit /\ UNCHANGED <<sidle, pidle, cidle, ridle, hidle>>

MigrateSpec == MigrateInit /\ [][MigrateNext]_vars

\* the scripts the command is to apply: up, the up scripts with
\* current < id <= target, ascending; down, the down scripts with
\* target < id <= current, descending
ScriptsToApply ==
  LET ids == {f.id : f \in {g \in scripts : g.direction = args.direction}}
      cur == transaction.current_version
      tgt == transaction.target_version
      asc == Ascending({id \in ids : IF args.direction = "up"
                                     THEN cur < id /\ id <= tgt
                                     ELSE tgt < id /\ id <= cur})
  IN [k \in DOMAIN asc |->
        [id |-> IF args.direction = "up" THEN asc[k] ELSE asc[Len(asc) + 1 - k],
         direction |-> args.direction]]

\* C40: when migrate has completed, Migration.Version is the target, the
\* scripts executed are the scripts to apply, in their order, the version
\* differs from the version before only when scripts were executed, and
\* nothing is written to the database before the transaction commits.
MigrateConsistent ==
  /\ mpc = "done" =>
       /\ database.version = Some(transaction.target_version)
       /\ args.target.some => transaction.target_version = args.target.v
       /\ database.executed = ScriptsToApply
       /\ transaction.target_version # transaction.current_version
            => database.executed # <<>>
  /\ mpc \in {"applying", "panicked"} =>
       /\ database.executed = <<>>
       /\ mpc = "applying" => database.version = Some(transaction.current_version)

====
